---------------------------- MODULE Spec2Model ----------------------------
(***************************************************************************)
(* A model of spyne.protocol.xml.XmlDocument: the value-to-wire encoder    *)
(* (to_parent and its handlers, in tree mode and in streaming mode with    *)
(* its coroutine chain incgen / gen_members_parent / _get_members_etree)   *)
(* and the wire-to-value decoder (from_element, complex_from_element).     *)
(*                                                                         *)
(* Python values, type descriptors and lxml elements are records.  A tag   *)
(* "{ns}name" is the pair <<ns, name>>; the string "prefix:local" of an    *)
(* xsi:type attribute is the sequence of its ':'-separated parts.          *)
(***************************************************************************)
EXTENDS Integers, Sequences, FiniteSets, TLC

VARIABLES
    types,       \* the type descriptors by name: read-only after setup
    \* ---- streaming encode (Spec) ----
    root,        \* name of the class being encoded
    mode,        \* "stream": incgen on an xmlfile writer; "tree": to_parent on an etree element
    gens,        \* the chain of suspended generators, outermost first
    sink,        \* the output: document tree, the writer's open-element path, error flag
    sent,        \* the items sent so far, in order
    left,        \* generators that stayed suspended after their driver finished
    spc,         \* "new" | "susp" | "done" | "exc"
    finishCalls, \* number of calls of ctx.out_stream.finish()
    \* ---- encode / decode of one value (CodecSpec) ----
    cls,         \* the type the value is encoded as
    decl,        \* the statically declared type the element is decoded as
    val,         \* native value handed to the encoder
    validator,   \* self.validator: "None" | "soft" | "schema"
    freshDefaults, \* whether a fresh instance starts with its declared defaults
    wire,        \* the encoder's result: [st, doc]
    elt,         \* the element handed to from_element
    tampered,    \* what the peer changed in the document before it came back
    decoded,     \* the decoder's result: [err, value]
    cpc,         \* "new" | "encoded" | "decoded"
    \* ---- document ingest (IngestSpec) ----
    validate_document,  \* the method bound to self.validate_document
    validation_schema,  \* self.validation_schema: NoneS or the compiled schema
    in_string,   \* ctx.in_string
    in_document, \* ctx.in_document
    raised,      \* the error the last call raised, NoneS if it returned
    requested,   \* the validator argument of the last set_validator that returned
    ipc,         \* "new" | "parsed" | "parse_failed" | "validated" | "validate_failed" | "decoded"
    \* ---- sub-protocol delegation (DelegSpec) ----
    deleg        \* one to_parent call: class, arguments as given and as passed on, depth, position

svars == <<root, mode, gens, sink, sent, left, spc, finishCalls>>
cvars == <<cls, decl, val, validator, freshDefaults, wire, elt, tampered, decoded, cpc>>
ivars == <<validate_document, validation_schema, in_string, in_document, raised, requested, ipc>>
vars  == <<types, root, mode, gens, sink, sent, left, spc, finishCalls,
           cls, decl, val, validator, freshDefaults, wire, elt, tampered, decoded, cpc,
           validate_document, validation_schema, in_string, in_document, raised, requested,
           ipc, deleg>>

---------------------------------------------------------------------------
(* Bounds of the model.                                                    *)

\* longest finite sequence held by a repeating field
MaxLen == 4
\* most items sent to a streaming encode
MaxSend == 3
\* longest owner and attribute sequences of an attribute_of pair
MaxOwners == 2
MaxItems == 2
\* the interpreter's limit on nested calls
RecursionLimit == 8

---------------------------------------------------------------------------
(* Python values.                                                          *)

NoneS == "None"                       \* None where the code holds a string
NoneV == [k |-> "none"]               \* None
MissingV == [k |-> "missing"]         \* the instance has no such attribute
RaisesV == [k |-> "raises"]           \* reading the attribute raises (foreign object)
PushV == [k |-> "push"]               \* a PushBase instance
IntV(n) == [k |-> "int", n |-> n]
EnumV(m) == [k |-> "enum", name |-> m]
ListV(s) == [k |-> "list", items |-> s]
ObjV(c, f) == [k |-> "obj", cls |-> c, fields |-> f]
StrV(t) == [k |-> "str", s |-> t]

IntVals == {IntV(0), IntV(1)}

RECURSIVE SeqsUpTo(_, _)
SeqsUpTo(S, n) ==
    IF n = 0 THEN {<<>>}
    ELSE LET shorter == SeqsUpTo(S, n - 1)
         IN  shorter \cup {Append(s, x) : s \in {t \in shorter : Len(t) = n - 1}, x \in S}

---------------------------------------------------------------------------
(* Namespaces and reserved attributes.                                     *)

ns_xsi == "xsi"
ns_soap_env == "soap_env"
tns == "tns"
NIL_NAME == <<ns_xsi, "nil">>
NIL_ATTR == {<<NIL_NAME, "true">>}
XSI_TYPE == <<ns_xsi, "type">>

GenTagname(ns, name) == <<ns, name>>

---------------------------------------------------------------------------
(* Type descriptors: what the encoder and decoder read of a type.          *)

unbounded == 99

Attributes(kind, type_name) ==
    [kind |-> kind, type_name |-> type_name, namespace |-> tns,
     nillable |-> TRUE, default |-> NoneV, min_occurs |-> 0, max_occurs |-> 1,
     sub_name |-> NoneS, sub_ns |-> NoneS,
     attribute_of |-> NoneS, type |-> NoneS,
     extends |-> NoneS, type_info |-> <<>>, members |-> {}, prot |-> NoneS]

IntegerT == Attributes("ModelBase", "integer")
FeedT == [Attributes("ComplexModelBase", "Feed") EXCEPT
            !.type_info = << <<"title", "IntegerReq">>, <<"items", "IntegerMany">>,
                             <<"tail", "Integer">> >>]
RowT == [Attributes("ComplexModelBase", "Row") EXCEPT
            !.type_info = << <<"id", "Integer">> >>]

TypeTable ==
    [Integer       |-> IntegerT,
     IntegerReq    |-> [IntegerT EXCEPT !.min_occurs = 1, !.nillable = FALSE],
     IntegerReqNil |-> [IntegerT EXCEPT !.min_occurs = 1],
     IntegerDef    |-> [IntegerT EXCEPT !.default = IntV(1)],
     IntegerSeq    |-> [IntegerT EXCEPT !.min_occurs = 1, !.max_occurs = 3],
     IntegerSeqSub |-> [IntegerT EXCEPT !.min_occurs = 1, !.max_occurs = 3,
                                        !.sub_name = "entry"],
     IntegerMany   |-> [IntegerT EXCEPT !.max_occurs = unbounded],
     Color         |-> [Attributes("EnumBase", "Color") EXCEPT !.members = {"Red", "Green"}],
     CodeAttr      |-> [Attributes("XmlAttribute", "CodeAttr") EXCEPT
                            !.type = "Integer", !.attribute_of = "item"],
     Rec           |-> [Attributes("ComplexModelBase", "Rec") EXCEPT
                            !.type_info = << <<"a", "Integer">>, <<"b", "IntegerReq">>,
                                             <<"d", "IntegerDef">> >>],
     Bag           |-> [Attributes("ComplexModelBase", "Bag") EXCEPT
                            !.type_info = << <<"s", "IntegerSeq">>, <<"c", "Color">> >>],
     Base          |-> [Attributes("ComplexModelBase", "Base") EXCEPT
                            !.type_info = << <<"x", "IntegerReqNil">> >>],
     Derived       |-> [Attributes("ComplexModelBase", "Derived") EXCEPT
                            !.extends = "Base",
                            !.type_info = << <<"y", "Integer">> >>],
     Tagged        |-> [Attributes("ComplexModelBase", "Tagged") EXCEPT
                            !.type_info = << <<"item", "IntegerSeq">>,
                                             <<"code", "CodeAttr">> >>],
     TaggedSub     |-> [Attributes("ComplexModelBase", "TaggedSub") EXCEPT
                            !.type_info = << <<"item", "IntegerSeqSub">>,
                                             <<"code", "CodeAttr">> >>],
     Row           |-> RowT,
     RowMany       |-> [RowT EXCEPT !.max_occurs = unbounded],
     Table         |-> [Attributes("ComplexModelBase", "Table") EXCEPT
                            !.type_info = << <<"rows", "RowMany">> >>],
     Feed          |-> FeedT,
     FeedMany      |-> [FeedT EXCEPT !.max_occurs = unbounded],
     Book          |-> [Attributes("ComplexModelBase", "Book") EXCEPT
                            !.type_info = << <<"chapters", "FeedMany">> >>],
     DerivedFeed   |-> [Attributes("ComplexModelBase", "DerivedFeed") EXCEPT
                            !.extends = "Feed",
                            !.type_info = << <<"extra", "Integer">> >>],
     Envelope      |-> [Attributes("ComplexModelBase", "Envelope") EXCEPT
                            !.type_info = << <<"body", "Feed">>, <<"note", "Integer">> >>],
     Pair          |-> [Attributes("ComplexModelBase", "Pair") EXCEPT
                            !.type_info = << <<"first", "Feed">>, <<"second", "Feed">> >>],
     Wrap          |-> [Attributes("ComplexModelBase", "Wrap") EXCEPT
                            !.type_info = << <<"rec", "Base">>, <<"n", "Integer">> >>],
     IntegerReqMany |-> [IntegerT EXCEPT !.nillable = FALSE, !.max_occurs = unbounded],
     Ints          |-> [Attributes("Array", "Ints") EXCEPT
                            !.type_info = << <<"integer", "IntegerReqMany">> >>],
     IntsIter      |-> [Attributes("Iterable", "IntsIter") EXCEPT
                            !.type_info = << <<"integer", "IntegerReqMany">> >>],
     IntegerVia    |-> [IntegerT EXCEPT !.prot = "XmlDocument"],
     IntegerSub    |-> [IntegerT EXCEPT !.prot = "SubXmlBase"],
     Routed        |-> [Attributes("ComplexModelBase", "Routed") EXCEPT
                            !.type_info = << <<"via", "IntegerVia">>, <<"n", "Integer">> >>],
     BodyText      |-> [Attributes("XmlData", "BodyText") EXCEPT !.type = "Integer"],
     Fault         |-> Attributes("Fault", "Fault"),
     AppFault      |-> [Attributes("Fault", "AppFault") EXCEPT
                            !.type_info = << <<"hint", "Integer">> >>]]

\* ctx.app.interface.classes: the registered complex types by qualified name
Classes == { <<tns, "Base">>, <<tns, "Derived">>, <<tns, "Rec">> }
ClassOf(classkey) == classkey[2]

\* elt.nsmap: the prefixes bound in the incoming document
NsMap == [p |-> tns]

TypeInfoKeys(t) == {types[t].type_info[i][1] : i \in 1..Len(types[t].type_info)}

\* cls.get_flat_type_info(cls): the fields of the extends chain, root ancestor first
RECURSIVE FlatTypeInfo(_)
FlatTypeInfo(t) ==
    IF types[t].extends = NoneS THEN types[t].type_info
    ELSE FlatTypeInfo(types[t].extends) \o types[t].type_info

FlatKeys(t) == {FlatTypeInfo(t)[i][1] : i \in 1..Len(FlatTypeInfo(t))}
FlatMember(t, key) ==
    LET fti == FlatTypeInfo(t)
    IN  fti[CHOOSE i \in 1..Len(fti) : fti[i][1] = key][2]

RECURSIVE Extends(_, _)
\* whether class t is b or extends it
Extends(t, b) ==
    \/ t = b
    \/ types[t].extends # NoneS /\ Extends(types[t].extends, b)

---------------------------------------------------------------------------
(* Primitive string conversion (ProtocolBase.to_string / from_string).     *)

to_string(v) ==
    CASE v.k = "int" /\ v.n = 0 -> "0"
      [] v.k = "int" /\ v.n = 1 -> "1"
      [] v.k = "enum" -> v.name
      [] OTHER -> "?"

from_string(text) ==
    CASE text = "0" -> IntV(0)
      [] text = "1" -> IntV(1)
      [] OTHER -> NoneV

---------------------------------------------------------------------------
(* lxml elements and the two kinds of sink.                                *)

\* E(tag, text)
E(tag, text) == [tag |-> tag, attrib |-> {}, text |-> text, children |-> <<>>]
\* E(tag, **NIL_ATTR)
ENil(tag) == [tag |-> tag, attrib |-> NIL_ATTR, text |-> "", children |-> <<>>]

\* element.get(name): the attribute's value, NoneS when it is not set
GetAttr(e, name) ==
    IF \E p \in e.attrib : p[1] = name
    THEN (CHOOSE p \in e.attrib : p[1] = name)[2]
    ELSE NoneS

\* element.set(name, value)
SetAttr(e, name, value) ==
    [e EXCEPT !.attrib = {p \in @ : p[1] # name} \cup {<<name, value>>}]

RECURSIVE NodeAt(_, _)
NodeAt(e, path) ==
    IF path = <<>> THEN e ELSE NodeAt(e.children[Head(path)], Tail(path))

RECURSIVE AppendAt(_, _, _)
AppendAt(e, path, child) ==
    IF path = <<>> THEN [e EXCEPT !.children = Append(@, child)]
    ELSE [e EXCEPT !.children[Head(path)] = AppendAt(@, Tail(path), child)]

RECURSIVE SetAttrAt(_, _, _, _)
RECURSIVE SetTextAt(_, _, _)
\* the document after the element at `path` got the text `text`
SetTextAt(e, path, text) ==
    IF path = <<>> THEN [e EXCEPT !.text = text]
    ELSE [e EXCEPT !.children[Head(path)] = SetTextAt(@, Tail(path), text)]

SetAttrAt(e, path, name, value) ==
    IF path = <<>> THEN SetAttr(e, name, value)
    ELSE [e EXCEPT !.children[Head(path)] = SetAttrAt(@, Tail(path), name, value)]

\* etree.Element('punk') of serialize(), or the empty output of etree.xmlfile
NewSink(m) ==
    [doc |-> E(<<NoneS, IF m = "tree" THEN "punk" ELSE "#document">>, ""),
     open |-> <<>>, bad |-> FALSE]

TreeParent(path) == [mode |-> "tree", path |-> path]
StreamParent == [mode |-> "stream", path |-> <<>>]

\* where a write through `parent` lands: the element itself, or the writer's
\* innermost open element
Target(s, parent) == IF parent.mode = "tree" THEN parent.path ELSE s.open

\* _append(parent, child_elt): parent.append on a tree, parent.write on a writer
AppendChild(s, parent, child) ==
    [s EXCEPT !.doc = AppendAt(@, Target(s, parent), child)]

RECURSIVE AppendAll(_, _, _, _)
AppendAll(s, parent, elts, i) ==
    IF i > Len(elts) THEN s
    ELSE AppendAll(AppendChild(s, parent, elts[i]), parent, elts, i + 1)

\* the path of the element a following SubElement / xf.element creates
NextPath(s, parent) ==
    Target(s, parent) \o <<Len(NodeAt(s.doc, Target(s, parent)).children) + 1>>

\* `with parent.element(tag_name):` entered on the writer
OpenElement(s, tag) ==
    [s EXCEPT !.doc = AppendAt(@, s.open, E(tag, "")),
              !.open = NextPath(s, StreamParent)]

\* leaving the `with`: lxml closes the element only when it is the innermost open
\* one, and otherwise raises ("inconsistent exit action in context manager")
CloseElement(s, path) ==
    IF s.open = path THEN [s EXCEPT !.open = SubSeq(path, 1, Len(path) - 1)]
    ELSE [s EXCEPT !.bad = TRUE]

---------------------------------------------------------------------------
(* Results of a call that may hand back a suspended generator.             *)
(* st = "done": the call returned None (a coroutine that ended while being *)
(* primed returns None); "susp": it returned a generator suspended at a    *)
(* yield, `frames` being the chain from that generator inwards; "exc": an  *)
(* exception other than Break propagated.                                  *)

Done(s) == [sink |-> s, frames |-> <<>>, st |-> "done", delay |-> {}, left |-> <<>>]
Raised(s) == [sink |-> s, frames |-> <<>>, st |-> "exc", delay |-> {}, left |-> <<>>]

Frame(fn, at, c, inst, parent, k, i, delay, path) ==
    [fn |-> fn, at |-> at, cls |-> c, inst |-> inst, parent |-> parent,
     k |-> k, i |-> i, delay |-> delay, path |-> path]

\* the generator `f`, suspended while driving the generator chain r.frames
Driving(f, r) == [r EXCEPT !.frames = <<f>> \o @, !.st = "susp"]

\* getattr(inst, k, None)
GetAttrOrNone(inst, key) ==
    IF inst.k # "obj" \/ key \notin DOMAIN inst.fields THEN NoneV
    ELSE IF inst.fields[key] = MissingV THEN NoneV
    ELSE inst.fields[key]

---------------------------------------------------------------------------
(* The value-to-wire encoder.                                              *)

DEFAULT_NS == "DEFAULT_NS"

\* Every call that may recurse goes through Call: its argument names the
\* function called and holds its arguments.
RECURSIVE Call(_)

Q(op, c, inst, parent, ns, name, delay, k, i, s) ==
    [op |-> op, c |-> c, inst |-> inst, parent |-> parent, ns |-> ns, name |-> name,
     delay |-> delay, k |-> k, i |-> i, s |-> s]

ToParent(c, inst, parent, ns, name, s) ==
    Call(Q("to_parent", c, inst, parent, ns, name, {}, 0, 0, s))
GetMembersEtree(c, inst, parent, delay, s) ==
    Call(Q("_get_members_etree", c, inst, parent, NoneS, NoneS, delay, 0, 0, s))
\* the rest of _get_members_etree as a call still lacking its sink: the member
\* loop from member k on, the item loop of member k from item i on, the fold
FieldsFrom(c, inst, parent, delay, k) ==
    Q("fields", c, inst, parent, NoneS, NoneS, delay, k, 0, NoneV)
ItemsFrom(c, inst, parent, delay, k, i) ==
    Q("items", c, inst, parent, NoneS, NoneS, delay, k, i, NoneV)
FoldOf(c, inst, parent, delay) ==
    Q("fold", c, inst, parent, NoneS, NoneS, delay, 0, 0, NoneV)

\* `ret = ...; if ret is not None: <drive it>`, then the rest q of the caller f:
\* r is what the callee returned
Then(r, f, q) ==
    IF r.st = "susp" THEN Driving(f, r)
    ELSE IF r.st = "exc" THEN r
    ELSE Call([q EXCEPT !.s = r.sink])

\* the same where the callee worked on the caller's delay set (line 614)
ThenShared(r, f, q) ==
    IF r.st = "susp" THEN Driving(f, r)
    ELSE IF r.st = "exc" THEN r
    ELSE Call([q EXCEPT !.s = r.sink, !.delay = r.delay])

\* a handler's name='retval' default
NameOr(name, dflt) == IF name = NoneS THEN dflt ELSE name

null_to_parent(c, parent, ns, name, s) ==
    IF types[c].kind = "XmlAttribute" THEN Done(s)
    ELSE IF types[c].kind = "XmlData"
    THEN IF parent.mode = "tree"
         THEN Done([s EXCEPT !.doc = SetAttrAt(@, parent.path, NIL_NAME, "true")])
         ELSE Raised(s)
    ELSE Done(AppendChild(s, parent, ENil(GenTagname(ns, NameOr(name, "retval")))))

\* a scalar handler that writes the element without its text
modelbase_to_parent_empty(c, inst, parent, ns, name, s) ==
    Done(AppendChild(s, parent, E(GenTagname(ns, NameOr(name, "retval")), "")))

modelbase_to_parent(c, inst, parent, ns, name, s) ==
    Done(AppendChild(s, parent,
                     E(GenTagname(ns, NameOr(name, "retval")), to_string(inst))))

enum_to_parent(c, inst, parent, ns, name, s) ==
    modelbase_to_parent(c, inst, parent, ns, name, s)

\* parent.set(name, to_string(cls.type, inst)); an xmlfile writer has no set()
xmlattribute_to_parent(c, inst, parent, ns, name, s) ==
    IF name = NoneS THEN Raised(s)            \* no default for name: TypeError
    ELSE IF inst = NoneV THEN Done(s)
    ELSE IF parent.mode = "tree"
    THEN Done([s EXCEPT !.doc = SetAttrAt(@, parent.path,
                                          GenTagname(types[c].sub_ns, name),
                                          to_string(inst))])
    ELSE Raised(s)

\* cls.marshall(self, name, inst, parent): the value becomes the text of the
\* parent element; an xmlfile writer has no text
xmldata_to_parent(c, inst, parent, ns, name, s) ==
    IF name = NoneS THEN Raised(s)            \* no default for name: TypeError
    ELSE IF parent.mode = "tree"
    THEN Done([s EXCEPT !.doc = SetTextAt(@, parent.path, to_string(inst))])
    ELSE Raised(s)

\* a `with` whose exit leaves the element open
ExitElementLeavesOpen(r, path) == r

\* the end of gen_members_parent's `with parent.element(tag_name):`
ExitElement(r, path) ==
    IF r.sink.open = path THEN [r EXCEPT !.sink = CloseElement(@, path)]
    ELSE [r EXCEPT !.sink = CloseElement(@, path), !.st = "exc", !.frames = <<>>]

\* etree.SubElement(parent, tag_name), or entering parent.element(tag_name)
EnterElement(s, parent, tag_name) ==
    IF parent.mode = "tree" THEN AppendChild(s, parent, E(tag_name, ""))
    ELSE OpenElement(s, tag_name)

\* gen_members_parent once _get_members_etree returned r
GmpEnd(r, f) ==
    IF r.st = "susp" THEN Driving(f, r)
    ELSE IF f.parent.mode = "tree" THEN r
    ELSE ExitElement(r, f.path)

\* the sink the members are written through
Inner(parent, path) == IF parent.mode = "tree" THEN TreeParent(path) ELSE parent

gen_members_parent(c, inst, parent, tag_name, subelts, s) ==
    GmpEnd(GetMembersEtree(c, inst, Inner(parent, NextPath(s, parent)), {},
                           AppendAll(EnterElement(s, parent, tag_name),
                                     Inner(parent, NextPath(s, parent)), subelts, 1)),
           Frame("gmp", IF parent.mode = "tree" THEN "582" ELSE "599",
                 c, inst, parent, 0, 0, {}, NextPath(s, parent)))

complex_to_parent(c, inst, parent, ns, name, s) ==
    gen_members_parent(c, inst, parent,
        GenTagname(IF types[c].sub_ns \notin {NoneS, DEFAULT_NS} THEN types[c].sub_ns ELSE ns,
                   IF types[c].sub_name # NoneS THEN types[c].sub_name
                   ELSE IF name = NoneS THEN types[c].type_name ELSE name),
        <<>>, s)

pref_soap_env == "senv"

\* the fixed children of a Fault element (lines 747-751)
FaultSubelts(inst) ==
    << E(<<NoneS, "faultcode">>, pref_soap_env \o ":" \o inst.fields.faultcode.s),
       E(<<NoneS, "faultstring">>, inst.fields.faultstring.s),
       E(<<NoneS, "faultactor">>, inst.fields.faultactor.s) >>

\* lines 755-762: the detail child, if any
FaultDetail(inst) ==
    IF inst.fields.detail = NoneV THEN <<>>
    ELSE <<E(<<NoneS, "detail">>, inst.fields.detail.s)>>

\* lxml.builder.E accepts strings, dicts and elements as children and raises
\* TypeError for anything else, None included
fault_to_parent(c, inst, parent, ns, s) ==
    IF inst.fields.faultstring.k # "str" \/ inst.fields.faultactor.k # "str"
    THEN Raised(s)
    ELSE IF inst.fields.detail.k \notin {"str", "none"} THEN Raised(s)
    ELSE gen_members_parent(c, inst, parent, GenTagname(ns_soap_env, "Fault"),
                            FaultSubelts(inst) \o FaultDetail(inst), s)

\* self.serialization_handlers[cls](ctx, cls, inst, parent, ns, name)
Serialize(c, inst, parent, ns, name, s) ==
    CASE types[c].kind = "ModelBase" -> modelbase_to_parent(c, inst, parent, ns, name, s)
      [] types[c].kind = "Fault" -> fault_to_parent(c, inst, parent, ns, s)
      [] types[c].kind = "XmlData" -> xmldata_to_parent(c, inst, parent, ns, name, s)
      [] types[c].kind = "EnumBase" -> enum_to_parent(c, inst, parent, ns, name, s)
      [] types[c].kind = "XmlAttribute" -> xmlattribute_to_parent(c, inst, parent, ns, name, s)
      [] types[c].kind \in {"ComplexModelBase", "Array", "Iterable"} ->
            complex_to_parent(c, inst, parent, ns, name, s)

\* inst after `if inst is None: inst = cls.Attributes.default`
OrDefault(c, inst) == IF inst = NoneV THEN types[c].default ELSE inst

\* subprot.subserialize(ctx, cls, inst, parent, ns, name), which is
\* self.to_parent(ctx, cls, inst, parent, name): the name goes where to_parent
\* takes the namespace and no name is passed. SubXmlBase.to_parent raises
\* NotImplementedError; XmlDocument.to_parent finds cls.Attributes.prot again
\* and, from the second call on, repeats the same call until the interpreter's
\* recursion limit raises
subserialize(c, inst, parent, ns, name, s) ==
    IF types[c].prot = "SubXmlBase" THEN Raised(s)
    ELSE IF ns = NoneS /\ name = NoneS THEN Raised(s)
    ELSE ToParent(c, inst, parent, name, NoneS, s)

to_parent(c, inst, parent, ns, name, s) ==
    IF types[c].prot # NoneS THEN subserialize(c, inst, parent, ns, name, s)
    ELSE IF OrDefault(c, inst) = NoneV THEN null_to_parent(c, parent, ns, name, s)
    ELSE Serialize(c, OrDefault(c, inst), parent, ns, name, s)

\* the generator suspended at `sv = (yield)` of the push loop
AwaitItem(c, inst, parent, delay, k, s) ==
    [sink |-> s, frames |-> <<Frame("gme", "653", c, inst, parent, k, 0, delay, <<>>)>>,
     st |-> "susp", delay |-> delay, left |-> <<>>]

MemberKey(c, k) == types[c].type_info[k][1]
MemberType(c, k) == types[c].type_info[k][2]
SubNs(c, v) == IF types[v].sub_ns = NoneS THEN types[c].namespace ELSE types[v].sub_ns
SubName(v, key) == IF types[v].sub_name = NoneS THEN key ELSE types[v].sub_name

\* the read of line 629: any failure of the read counts as None
ReadMember(inst, key) ==
    IF GetAttrOrNone(inst, key) = RaisesV THEN NoneV ELSE GetAttrOrNone(inst, key)

\* whether the member is put on the delay set instead of being written
IsDelayed(c, v) ==
    types[v].kind = "XmlAttribute" /\ types[v].attribute_of \in TypeInfoKeys(c)

\* whether a single-valued member is written at all (line 686)
IsWritten(subvalue, v) == subvalue # NoneV \/ types[v].min_occurs > 0

\* self.to_parent(ctx, v, sv, parent, sub_ns, sub_name) for member k of cls
WriteMember(c, k, sv, parent, s) ==
    ToParent(MemberType(c, k), sv, parent, SubNs(c, MemberType(c, k)),
             SubName(MemberType(c, k), MemberKey(c, k)), s)

get_members_etree(c, inst, parent, delay, s) ==
    IF types[c].extends # NoneS
    THEN ThenShared(GetMembersEtree(types[c].extends, inst, parent, delay, s),
                    Frame("gme", "618", c, inst, parent, 0, 0, delay, <<>>),
                    FieldsFrom(c, inst, parent, delay, 1))
    ELSE Call([FieldsFrom(c, inst, parent, delay, 1) EXCEPT !.s = s])

\* one member of `for k, v in cls._type_info.items():`, whose value was read as
\* subvalue, and then the members after it
GmeMember(c, inst, parent, delay, k, subvalue, s) ==
    IF IsDelayed(c, MemberType(c, k))
    THEN Call([FieldsFrom(c, inst, parent, delay \cup {MemberKey(c, k)}, k + 1)
                  EXCEPT !.s = s])
    ELSE IF subvalue # NoneV /\ types[MemberType(c, k)].max_occurs > 1
    THEN IF subvalue = PushV THEN AwaitItem(c, inst, parent, delay, k, s)
         ELSE IF subvalue.k # "list" THEN Raised(s)
         ELSE Call([ItemsFrom(c, inst, parent, delay, k, 1) EXCEPT !.s = s])
    ELSE IF IsWritten(subvalue, MemberType(c, k))
    THEN Then(WriteMember(c, k, subvalue, parent, s),
              Frame("gme", "692", c, inst, parent, k, 0, delay, <<>>),
              FieldsFrom(c, inst, parent, delay, k + 1))
    ELSE Call([FieldsFrom(c, inst, parent, delay, k + 1) EXCEPT !.s = s])

\* `for k, v in cls._type_info.items():` from the k-th member on, then the fold
GmeFields(c, inst, parent, delay, k, s) ==
    IF k > Len(types[c].type_info)
    THEN Call([FoldOf(c, inst, parent, delay) EXCEPT !.s = s])
    ELSE GmeMember(c, inst, parent, delay, k, ReadMember(inst, MemberKey(c, k)), s)

\* `for sv in subvalue:` of the k-th member from the i-th item on
GmeItems(c, inst, parent, delay, k, i, s) ==
    IF i > Len(ReadMember(inst, MemberKey(c, k)).items)
    THEN Call([FieldsFrom(c, inst, parent, delay, k + 1) EXCEPT !.s = s])
    ELSE Then(WriteMember(c, k, ReadMember(inst, MemberKey(c, k)).items[i], parent, s),
              Frame("gme", "676", c, inst, parent, k, i, delay, <<>>),
              ItemsFrom(c, inst, parent, delay, k, i + 1))

\* parent.findall("{%s}%s" % (ns, a_of)): the paths of the matching children
FindAll(s, path, tag) ==
    LET ch == NodeAt(s.doc, path).children
    IN  [j \in 1..Cardinality({i \in 1..Len(ch) : ch[i].tag = tag}) |->
           path \o <<CHOOSE i \in 1..Len(ch) :
                        /\ ch[i].tag = tag
                        /\ Cardinality({h \in 1..i : ch[h].tag = tag}) = j>>]

\* self.to_parent(ctx, v, value, attr_parent, v.get_namespace(), k) of the fold,
\* v being an XmlAttribute
SetOn(v, key, value, attr_parent, s) ==
    IF OrDefault(v, value) = NoneV THEN s
    ELSE xmlattribute_to_parent(v, OrDefault(v, value), TreeParent(attr_parent),
                                types[v].namespace, key, s).sink

RECURSIVE FoldZip(_, _, _, _, _, _)
\* `for subsubvalue, attr_parent in zip(subvalue, attr_parents):`
FoldZip(v, key, items, attr_parents, j, s) ==
    IF j > Len(items) \/ j > Len(attr_parents) THEN s
    ELSE FoldZip(v, key, items, attr_parents, j + 1,
                 SetOn(v, key, items[j], attr_parents[j], s))

RECURSIVE FoldEach(_, _, _, _, _, _)
\* `for attr_parent in attr_parents:`
FoldEach(v, key, subvalue, attr_parents, j, s) ==
    IF j > Len(attr_parents) THEN s
    ELSE FoldEach(v, key, subvalue, attr_parents, j + 1,
                  SetOn(v, key, subvalue, attr_parents[j], s))

\* the tag under which the owner elements of a delayed attribute are looked up
OwnerTag(c, a_of) == GenTagname(types[c].namespace, a_of)

\* one delayed member of lines 705-725, its value read (unguarded) as subvalue
FoldMember(c, v, key, subvalue, attr_parents, s) ==
    IF subvalue = RaisesV THEN Raised(s)
    ELSE IF types[FlatMember(c, types[v].attribute_of)].max_occurs > 1
    THEN IF subvalue.k # "list" THEN Raised(s)           \* zip(None, ...): TypeError
         ELSE Done(FoldZip(v, key, subvalue.items, attr_parents, 1, s))
    ELSE Done(FoldEach(v, key, subvalue, attr_parents, 1, s))

FoldKey(c, inst, parent, key, s) ==
    IF key \notin TypeInfoKeys(c) THEN Raised(s)            \* cls._type_info[k]: KeyError
    ELSE FoldMember(c, FlatMember(c, key), key, GetAttrOrNone(inst, key),
                    FindAll(s, parent.path,
                            OwnerTag(c, types[FlatMember(c, key)].attribute_of)),
                    s)

\* the fold went through the rest of the delay set; the set itself is unchanged
Folded(r, delay) == [r EXCEPT !.delay = delay]

\* lines 703-725: attach the delayed attribute_of members (tree mode only)
GmeFold(c, inst, parent, delay, s) ==
    IF parent.mode # "tree" \/ delay = {} THEN Folded(Done(s), delay)
    ELSE Folded(Then(FoldKey(c, inst, parent, CHOOSE key \in delay : TRUE, s),
                     Frame("gme", "fold", c, inst, parent, 0, 0, delay, <<>>),
                     FoldOf(c, inst, parent, delay \ {CHOOSE key \in delay : TRUE})),
                delay)

\* the function a call names, applied to its arguments
Call(q) ==
    CASE q.op = "to_parent" -> to_parent(q.c, q.inst, q.parent, q.ns, q.name, q.s)
      [] q.op = "_get_members_etree" -> get_members_etree(q.c, q.inst, q.parent, q.delay, q.s)
      [] q.op = "fields" -> GmeFields(q.c, q.inst, q.parent, q.delay, q.k, q.s)
      [] q.op = "items" -> GmeItems(q.c, q.inst, q.parent, q.delay, q.k, q.i, q.s)
      [] q.op = "fold" -> GmeFold(q.c, q.inst, q.parent, q.delay, q.s)

---------------------------------------------------------------------------
(* Driving a suspended generator chain: send() and throw(Break()).         *)

RECURSIVE SendTo(_, _, _)
RECURSIVE ThrowTo(_, _)

\* an exception propagates out of the generator f: its `with` blocks exit
Unwind(f, r) ==
    IF f.fn = "gmp" /\ f.at = "599"
    THEN [r EXCEPT !.sink = CloseElement(@, f.path), !.st = "exc", !.frames = <<>>]
    ELSE [r EXCEPT !.st = "exc", !.frames = <<>>]

\* a push loop that drops the item it got
WriteItemSkipped(f, y, s) == Done(s)

\* line 654: self.to_parent(ctx, v, sv, parent, sub_ns, sub_name)
WriteItem(f, y, s) == WriteMember(f.cls, f.k, y, f.parent, s)

\* the push loop got an item and to_parent returned r
Received(r, f) ==
    IF r.st = "susp" THEN Driving([f EXCEPT !.at = "659"], r)
    ELSE IF r.st = "exc" THEN r
    ELSE [r EXCEPT !.frames = <<f>>, !.st = "susp"]

\* a driver's `ret.send(y)` returned r: no generator of the chain ends on a send
\* except by an exception
Forwarded(r, f) == IF r.st = "susp" THEN Driving(f, r) ELSE Unwind(f, r)

\* gen.send(y) on the chain `frames`, outermost generator first
SendTo(frames, y, s) ==
    IF Head(frames).fn = "gme" /\ Head(frames).at = "653"
    THEN Received(WriteItem(Head(frames), y, s), Head(frames))
    ELSE Forwarded(SendTo(Tail(frames), y, s), Head(frames))

\* generators nobody holds any more although they are suspended at a yield
Abandoned(r) == r.left \o (IF r.st = "susp" THEN <<r.frames>> ELSE <<>>)

\* the delay set shared with the generator of the extended class
DelayOf(r) == IF r.st = "susp" THEN r.frames[1].delay ELSE r.delay

\* the exit of incgen's `with etree.xmlfile(ctx.out_stream) as xf:`; the caller
\* counts the finish() of lines 520-521
IncgenEnd(r) ==
    IF r.sink.open # <<>> THEN Raised([r.sink EXCEPT !.bad = TRUE]) ELSE Done(r.sink)

\* what the generator f does after its `ret.throw(Break())` returned or raised
\* StopIteration, r being the state the inner chain was left in
Resume(f, r) ==
    CASE f.fn = "gme" /\ f.at = "618" ->
            Call([FieldsFrom(f.cls, f.inst, f.parent, DelayOf(r), 1) EXCEPT !.s = r.sink])
      [] f.fn = "gme" /\ f.at = "659" ->
            AwaitItem(f.cls, f.inst, f.parent, f.delay, f.k, r.sink)
      [] f.fn = "gme" /\ f.at = "676" ->
            Call([ItemsFrom(f.cls, f.inst, f.parent, f.delay, f.k, f.i + 1)
                     EXCEPT !.s = r.sink])
      [] f.fn = "gme" /\ f.at = "692" ->
            Call([FieldsFrom(f.cls, f.inst, f.parent, f.delay, f.k + 1)
                     EXCEPT !.s = r.sink])
      [] f.fn = "gmp" /\ f.at = "582" -> Done(r.sink)
      [] f.fn = "gmp" /\ f.at = "599" -> ExitElement(Done(r.sink), f.path)
      [] f.fn = "incgen" -> IncgenEnd(r)

\* the generator f caught Break and threw it into the chain it drives, which
\* left r
Thrown(r, f) ==
    IF r.st = "exc" THEN Unwind(f, r)
    ELSE [Resume(f, r) EXCEPT !.left = Abandoned(r) \o @]

\* gen.throw(Break()) on the chain `frames`: the innermost generator, suspended
\* in the push loop, leaves by `except Break: pass` (700) and runs the fold
ThrowTo(frames, s) ==
    IF Head(frames).fn = "gme" /\ Head(frames).at = "653"
    THEN Call([FoldOf(Head(frames).cls, Head(frames).inst, Head(frames).parent,
                      Head(frames).delay) EXCEPT !.s = s])
    ELSE Thrown(ThrowTo(Tail(frames), s), Head(frames))

---------------------------------------------------------------------------
(* Spec: one streaming encode, driven by its caller.                       *)

Innermost == gens[Len(gens)]
\* the type of the items the innermost push loop waits for
InnermostMember == MemberType(Innermost.cls, Innermost.k)

FeedOf(items) ==
    ObjV("Feed", [title |-> IntV(1), items |-> items, tail |-> IntV(0)])
RowOf(n) == ObjV("Row", [id |-> IntV(n)])

\* instances with push-style fields, by class
StreamInsts(c) ==
    CASE c = "Feed" -> {FeedOf(PushV)}
      [] c = "Table" -> {ObjV("Table", [rows |-> PushV])}
      [] c = "Book" -> {ObjV("Book", [chapters |-> PushV]),
                        ObjV("Book", [chapters |->
                                        ListV(<<FeedOf(PushV), FeedOf(PushV)>>)])}
      [] c = "DerivedFeed" ->
            {ObjV("DerivedFeed", [title |-> IntV(1), items |-> PushV,
                                  tail |-> IntV(0), extra |-> IntV(1)])}
      [] c = "Envelope" -> {ObjV("Envelope", [body |-> FeedOf(PushV), note |-> IntV(1)])}
      [] c = "Pair" -> {ObjV("Pair", [first |-> FeedOf(PushV), second |-> FeedOf(PushV)])}

StreamRoots == {"Feed", "Table", "Book", "DerivedFeed", "Envelope", "Pair"}

\* the items a caller may send for a push field of type v
ItemsFor(v) ==
    CASE types[v].type_name = "Feed" -> {FeedOf(PushV), FeedOf(ListV(<<IntV(1)>>))}
      [] types[v].type_name = "Row" -> {RowOf(0), RowOf(1)}
      [] OTHER -> IntVals

\* incgen up to its first yield, to_parent having returned r (lines 504-511)
IncgenStart(r, f) ==
    IF r.st = "susp" THEN Driving(f, r)
    ELSE IF r.st = "exc" THEN r
    ELSE IncgenEnd(r)

incgen(c, inst, ns, s) ==
    IncgenStart(ToParent(c, inst, StreamParent, ns, types[c].type_name, s),
                Frame("incgen", "511", c, inst, StreamParent, 0, 0, {}, <<>>))

\* serialize(): to_parent onto etree.Element('punk'), or incgen onto the stream
StartEncode(c, inst, m) ==
    IF m = "tree" THEN ToParent(c, inst, TreeParent(<<>>), tns, NoneS, NewSink(m))
    ELSE incgen(c, inst, tns, NewSink(m))

\* no document is being ingested
IdleIngest ==
    /\ validate_document = "noop"
    /\ validation_schema = NoneS
    /\ in_string = NoneV
    /\ in_document = NoneV
    /\ raised = NoneS
    /\ requested = NoneS
    /\ ipc = "off"

IdleCodec ==
    /\ cls = NoneS
    /\ decl = NoneS
    /\ val = NoneV
    /\ validator = NoneS
    /\ freshDefaults = FALSE
    /\ wire = NoneV
    /\ elt = NoneV
    /\ tampered = NoneS
    /\ decoded = NoneV
    /\ cpc = "off"

Init ==
    /\ types = TypeTable
    /\ root \in {[c |-> c, inst |-> i] : c \in StreamRoots, i \in StreamInsts("Book") \cup StreamInsts("Pair") \cup StreamInsts("Feed") \cup StreamInsts("Table") \cup StreamInsts("DerivedFeed") \cup StreamInsts("Envelope")}
    /\ root.inst.cls = root.c
    /\ mode \in {"stream", "tree"}
    /\ gens = <<>>
    /\ sink = NewSink(mode)
    /\ sent = <<>>
    /\ left = <<>>
    /\ spc = "new"
    /\ finishCalls = 0
    /\ IdleCodec
    /\ IdleIngest
    /\ deleg = NoneV

\* the caller keeps what a call on the encode left behind
Settle(r) ==
    /\ gens' = r.frames
    /\ sink' = r.sink
    /\ left' = left \o r.left
    /\ spc' = r.st
    /\ finishCalls' = IF mode = "stream" /\ r.st = "done" THEN finishCalls + 1
                      ELSE finishCalls

Start ==
    /\ spc = "new"
    /\ Settle(StartEncode(root.c, root.inst, mode))
    /\ UNCHANGED <<types, deleg, ivars, root, mode, sent, cvars>>

Send(y) ==
    /\ spc = "susp"
    /\ Len(sent) < MaxSend
    /\ Settle(SendTo(gens, y, sink))
    /\ sent' = Append(sent, y)
    /\ UNCHANGED <<types, deleg, ivars, root, mode, cvars>>

ThrowBreak ==
    /\ spc = "susp"
    /\ Settle(ThrowTo(gens, sink))
    /\ UNCHANGED <<types, deleg, ivars, root, mode, sent, cvars>>

SendChoices == IF spc = "susp" THEN ItemsFor(InnermostMember) ELSE {}

Next ==
    \/ Start
    \/ \E y \in SendChoices : Send(y)
    \/ ThrowBreak

Spec == Init /\ [][Next]_vars

---------------------------------------------------------------------------
(* The wire-to-value decoder.                                              *)

SOFT_VALIDATION == "soft"
SCHEMA_VALIDATION == "schema"

\* what a decode call leaves: the value returned, or the exception raised and
\* its fault code; calls lists the types whose handler was invoked, in order
Returns(v, calls) == [exc |-> NoneS, err |-> NoneS, value |-> v, calls |-> calls]
Raises(exc, err, calls) == [exc |-> exc, err |-> err, value |-> NoneV, calls |-> calls]
\* raise ValidationError(...): a Fault whose code is Client.ValidationError
RaisesValidationError(calls) == Raises("ValidationError", "Client.ValidationError", calls)

\* xsi_type.split(':') for the attribute values that occur
Split(text) ==
    CASE text = "p:Derived" -> <<"p", "Derived">>
      [] text = "p:Rec" -> <<"p", "Rec">>
      [] text = "p:Nope" -> <<"p", "Nope">>
      [] text = "q:Derived" -> <<"q", "Derived">>
      [] text = "p:Derived:x" -> <<"p", "Derived", "x">>
      [] OTHER -> <<text>>

HasAttr(e, name) == \E p \in e.attrib : p[1] = name

\* bool(element.get('{xsi}nil')): any non-empty value counts
IsNil(e) == HasAttr(e, NIL_NAME) /\ GetAttr(e, NIL_NAME) # ""

\* a resolution that always keeps the declared class
ResolveClassDeclared(c, e) == c

\* lines 808-822: the class the element is decoded as
ResolveClass(c, e) ==
    IF ~HasAttr(e, XSI_TYPE) \/ GetAttr(e, XSI_TYPE) = "" THEN c
    ELSE IF Len(Split(GetAttr(e, XSI_TYPE))) # 2 THEN c               \* ValueError
    ELSE IF Split(GetAttr(e, XSI_TYPE))[1] \notin DOMAIN NsMap THEN c  \* KeyError
    ELSE IF <<NsMap[Split(GetAttr(e, XSI_TYPE))[1]],
              Split(GetAttr(e, XSI_TYPE))[2]>> \notin Classes THEN c   \* KeyError
    ELSE ClassOf(<<NsMap[Split(GetAttr(e, XSI_TYPE))[1]], Split(GetAttr(e, XSI_TYPE))[2]>>)

\* cls.get_deserialization_instance(): a new instance whose fields start as
\* None, or as their declared defaults
Fresh(c) ==
    [key \in FlatKeys(c) |->
        IF freshDefaults THEN types[FlatMember(c, key)].default ELSE NoneV]

\* cls._type_info_alt: the field emitted under the name `name` by a sub_name
\* override, NoneS when there is none
AltKey(c, name) ==
    IF \E key \in FlatKeys(c) : types[FlatMember(c, key)].sub_name = name
    THEN CHOOSE key \in FlatKeys(c) : types[FlatMember(c, key)].sub_name = name
    ELSE NoneS

\* flat_type_info.get(key), then cls._type_info_alt.get(key): the field's key
MemberKeyOf(c, name) == IF name \in FlatKeys(c) THEN name ELSE AltKey(c, name)

\* the name an attribute is looked up by: "{ns}name", or the bare name
AttrLookup(c, name) == IF name[1] = NoneS THEN MemberKeyOf(c, name[2]) ELSE NoneS

\* value = getattr(inst, key, None); if value is None: value = []; value.append(x)
ListAppend(cur, x) ==
    IF cur = NoneV THEN ListV(<<x>>) ELSE ListV(Append(cur.items, x))

\* frequencies[key] += 1
Bump(freq, key) ==
    [n \in DOMAIN freq \cup {key} |->
        IF n = key THEN (IF key \in DOMAIN freq THEN freq[key] + 1 ELSE 1) ELSE freq[n]]

\* lines 864-883 for one attribute of a child: the instance's fields afterwards
ChildAttr(c, fields, p, mo, key) ==
    IF key = NoneS THEN fields
    ELSE IF types[FlatMember(c, key)].kind # "XmlAttribute"
            \/ types[FlatMember(c, key)].attribute_of = key THEN fields
    ELSE IF mo > 1 THEN [fields EXCEPT ![key] = ListAppend(@, from_string(p[2]))]
    ELSE [fields EXCEPT ![key] = from_string(p[2])]

RECURSIVE ChildAttrs(_, _, _, _)
\* `for key, value_str in c.attrib.items():`
ChildAttrs(c, fields, attrs, mo) ==
    IF attrs = {} THEN fields
    ELSE ChildAttrs(c, ChildAttr(c, fields, CHOOSE p \in attrs : TRUE, mo,
                                 AttrLookup(c, (CHOOSE p \in attrs : TRUE)[1])),
                    attrs \ {CHOOSE p \in attrs : TRUE}, mo)

\* lines 885-899 for one attribute of the element itself
OwnAttr(c, fields, p, key) ==
    IF key = NoneS THEN fields
    ELSE IF types[FlatMember(c, key)].kind # "XmlAttribute"
            \/ types[FlatMember(c, key)].attribute_of = key THEN fields
    ELSE [fields EXCEPT ![key] = from_string(p[2])]

RECURSIVE OwnAttrs(_, _, _)
\* `for key, value_str in elt.attrib.items():`
OwnAttrs(c, fields, attrs) ==
    IF attrs = {} THEN fields
    ELSE OwnAttrs(c, OwnAttr(c, fields, CHOOSE p \in attrs : TRUE,
                             AttrLookup(c, (CHOOSE p \in attrs : TRUE)[1])),
                  attrs \ {CHOOSE p \in attrs : TRUE})

\* a frequency check that accepts everything
BreaksFrequencyNever(c, freq) == FALSE

\* lines 905-911: some field's frequency is outside its occurrence bounds
BreaksFrequency(c, freq) ==
    \E key \in FlatKeys(c) :
        LET n == IF key \in DOMAIN freq THEN freq[key] ELSE 0
        IN  n < types[FlatMember(c, key)].min_occurs
              \/ n > types[FlatMember(c, key)].max_occurs

RECURSIVE FromElement(_, _)

base_from_element(c, e) == Returns(from_string(e.text), <<c>>)

enum_from_element(c, e) ==
    IF validator = SOFT_VALIDATION /\ e.text \notin types[c].members
    THEN RaisesValidationError(<<c>>)
    ELSE IF e.text \in types[c].members THEN Returns(EnumV(e.text), <<c>>)
    ELSE Raises("AttributeError", NoneS, <<c>>)           \* getattr(cls, element.text)

\* a loop body that keeps the value a non-repeating field already has
ChildDecodedFirstWins(c, ch, key, r, acc) ==
    IF r.exc # NoneS
    THEN [acc EXCEPT !.exc = r.exc, !.err = r.err, !.calls = @ \o r.calls]
    ELSE [acc EXCEPT
            !.calls = @ \o r.calls,
            !.fields = [@ EXCEPT ![key] =
                          IF types[FlatMember(c, key)].max_occurs > 1
                          THEN ListAppend(@, r.value)
                          ELSE IF @ = NoneV THEN r.value ELSE @]]

\* the loop state once child ch, which belongs to field key, was decoded as r
ChildDecoded(c, ch, key, r, acc) ==
    IF r.exc # NoneS
    THEN [acc EXCEPT !.exc = r.exc, !.err = r.err, !.calls = @ \o r.calls]
    ELSE [acc EXCEPT
            !.calls = @ \o r.calls,
            !.fields = ChildAttrs(c,
                          [@ EXCEPT ![key] =
                              IF types[FlatMember(c, key)].max_occurs > 1
                              THEN ListAppend(@, r.value) ELSE r.value],
                          ch.attrib, types[FlatMember(c, key)].max_occurs)]

\* one round of `for c in elt:` (lines 839-883)
DecodeChild(c, ch, key, acc) ==
    IF key = NoneS THEN acc
    ELSE ChildDecoded(c, ch, key, FromElement(FlatMember(c, key), ch), acc)

RECURSIVE DecodeChildren(_, _, _, _)
DecodeChildren(c, children, i, acc) ==
    IF i > Len(children) \/ acc.exc # NoneS THEN acc
    ELSE DecodeChildren(c, children, i + 1,
            DecodeChild(c, children[i], MemberKeyOf(c, children[i].tag[2]),
                        [acc EXCEPT !.freq = Bump(@, children[i].tag[2])]))

\* complex_from_element after the children loop left acc
ComplexDecoded(c, e, acc) ==
    IF acc.exc # NoneS THEN Raises(acc.exc, acc.err, acc.calls)
    ELSE IF validator = SOFT_VALIDATION /\ BreaksFrequency(c, acc.freq)
    THEN Raises("Fault", "Client.ValidationError", acc.calls)
    ELSE Returns(ObjV(c, OwnAttrs(c, acc.fields, e.attrib)), acc.calls)

\* complex_from_element with cls already resolved to c
DecodeAs(c, e, declared) ==
    ComplexDecoded(c, e,
        DecodeChildren(c, e.children, 1,
            [fields |-> Fresh(c), freq |-> <<>>, exc |-> NoneS, err |-> NoneS,
             calls |-> <<declared>>]))

complex_from_element(c, e) == DecodeAs(ResolveClass(c, e), e, c)

\* element.find(name): the first child of that name, NoneV when there is none
Find(e, name) ==
    IF \E i \in 1..Len(e.children) : e.children[i].tag = <<NoneS, name>>
    THEN e.children[CHOOSE i \in 1..Len(e.children) :
                        /\ e.children[i].tag = <<NoneS, name>>
                        /\ \A j \in 1..(i - 1) : e.children[j].tag # <<NoneS, name>>]
    ELSE NoneV

\* cls(faultcode=code, faultstring=string, faultactor=factor, detail=detail)
fault_from_element(c, e) ==
    IF Find(e, "faultcode") = NoneV \/ Find(e, "faultstring") = NoneV
    THEN Raises("AttributeError", NoneS, <<c>>)          \* None.text
    ELSE Returns(ObjV(c, [faultcode |-> StrV(Find(e, "faultcode").text),
                          faultstring |-> StrV(Find(e, "faultstring").text),
                          faultactor |-> IF Find(e, "faultactor") = NoneV THEN NoneV
                                         ELSE StrV(Find(e, "faultactor").text),
                          detail |-> Find(e, "detail")]), <<c>>)

\* self.from_element(ctx, serializer, child) for each child, in order, where
\* (serializer,) = cls._type_info.values()
ItemResults(c, e) ==
    [i \in 1..Len(e.children) |-> FromElement(types[c].type_info[1][2], e.children[i])]

\* the list of the items, or the error of the first item that fails
ArrayOf(c, rs) ==
    IF \E i \in 1..Len(rs) : rs[i].exc # NoneS
    THEN rs[CHOOSE i \in 1..Len(rs) :
                /\ rs[i].exc # NoneS /\ \A j \in 1..(i - 1) : rs[j].exc = NoneS]
    ELSE Returns(ListV([i \in 1..Len(rs) |-> rs[i].value]), <<c>>)

array_from_element(c, e) == ArrayOf(c, ItemResults(c, e))

\* a generator function: the call returns the generator object and runs none
\* of the body; `pending` is what each next() on it will give
iterable_from_element(c, e) ==
    Returns([k |-> "gen", pending |-> ItemResults(c, e)], <<c>>)

\* self.deserialization_handlers[cls](ctx, cls, element)
Deserialize(c, e) ==
    CASE types[c].kind = "ModelBase" -> base_from_element(c, e)
      [] types[c].kind = "Fault" -> fault_from_element(c, e)
      [] types[c].kind = "Array" -> array_from_element(c, e)
      [] types[c].kind = "Iterable" -> iterable_from_element(c, e)
      [] types[c].kind = "EnumBase" -> enum_from_element(c, e)
      [] types[c].kind = "ComplexModelBase" -> complex_from_element(c, e)

\* a from_element that does not look at the nil marker
from_element_ignoring_nil(c, e) == Deserialize(c, e)

from_element(c, e) ==
    IF IsNil(e)
    THEN IF validator = SOFT_VALIDATION /\ ~types[c].nillable
         THEN RaisesValidationError(<<>>)
         ELSE Returns(types[c].default, <<>>)
    ELSE Deserialize(c, e)

FromElement(c, e) == from_element(c, e)

---------------------------------------------------------------------------
(* CodecSpec: one value encoded in tree mode, the element possibly changed  *)
(* by the peer, and decoded again.                                         *)

\* what a field of an instance may hold
ScalarVals == {MissingV, NoneV, RaisesV} \cup IntVals
PlainVals == {NoneV} \cup IntVals
EnumVals == {NoneV, EnumV("Red"), EnumV("Green")}
ListVals(n) == {NoneV} \cup {ListV(q) : q \in SeqsUpTo(IntVals, n)}

CodecInsts(c) ==
    CASE c \in {"Integer", "IntegerReq", "IntegerDef"} -> PlainVals
      [] c = "Color" -> EnumVals
      [] c = "Rec" -> {ObjV("Rec", [a |-> x, b |-> y, d |-> z]) :
                          x \in ScalarVals, y \in ScalarVals, z \in ScalarVals}
      [] c = "Bag" -> {ObjV("Bag", [s |-> x, c |-> y]) :
                          x \in ListVals(MaxLen), y \in EnumVals}
      [] c = "Base" -> {ObjV("Base", [x |-> x]) : x \in ScalarVals}
      [] c = "Derived" -> {ObjV("Derived", [x |-> x, y |-> y]) :
                              x \in ScalarVals, y \in ScalarVals}
      [] c \in {"Tagged", "TaggedSub"} ->
            {ObjV(c, [item |-> x, code |-> y]) :
                x \in ListVals(MaxOwners), y \in {RaisesV} \cup ListVals(MaxOwners)}
      [] c \in {"Ints", "IntsIter"} ->
            {ObjV(c, [integer |-> ListV(q)]) : q \in SeqsUpTo(PlainVals, MaxItems)}
      [] c \in {"IntegerVia", "IntegerSub", "CodeAttr", "BodyText"} -> PlainVals
      [] c = "Routed" -> {ObjV("Routed", [via |-> x, n |-> IntV(1)]) : x \in PlainVals}
      [] c = "Fault" ->
            {ObjV("Fault", [faultcode |-> StrV("Client.Foo"), faultstring |-> StrV("bad"),
                            faultactor |-> x, detail |-> y]) :
                x \in {NoneV, StrV(""), StrV("me")}, y \in {NoneV, StrV("why"), IntV(1)}}
      [] c = "AppFault" ->
            {ObjV("AppFault", [faultcode |-> StrV("Client.Foo"), faultstring |-> StrV("bad"),
                               faultactor |-> x, detail |-> y, hint |-> z]) :
                x \in {NoneV, StrV("")}, y \in {NoneV, StrV("why")}, z \in PlainVals}
      [] c = "Wrap" -> {ObjV("Wrap", [rec |-> x, n |-> y]) :
                           x \in {NoneV, ObjV("Base", [x |-> NoneV]),
                                  ObjV("Base", [x |-> IntV(1)]),
                                  ObjV("Derived", [x |-> IntV(0), y |-> IntV(1)])},
                           y \in PlainVals}

CodecRoots == {"Integer", "IntegerReq", "IntegerDef", "Color", "Rec", "Bag", "Base",
               "Derived", "Tagged", "TaggedSub", "Wrap", "Fault", "AppFault",
               "Ints", "IntsIter", "IntegerVia", "IntegerSub", "Routed",
               "CodeAttr", "BodyText"}

\* what the peer may change in the element before sending it back
XsiTampers == {"p:Derived", "p:Rec", "p:Nope", "q:Derived", "Derived", "p:Derived:x"}
NilTampers == {"true", "false"}

IdleStream ==
    /\ root = NoneV
    /\ mode = "tree"
    /\ gens = <<>>
    /\ sink = NewSink("tree")
    /\ sent = <<>>
    /\ left = <<>>
    /\ spc = "off"
    /\ finishCalls = 0

CodecInit ==
    /\ types = TypeTable
    /\ cls \in CodecRoots
    /\ decl \in CodecRoots
    /\ Extends(cls, decl)
    /\ val \in CodecInsts(cls)
    /\ validator \in {NoneS, SOFT_VALIDATION, SCHEMA_VALIDATION}
    /\ freshDefaults \in BOOLEAN
    /\ wire = NoneV
    /\ elt = NoneV
    /\ tampered = NoneS
    /\ decoded = NoneV
    /\ cpc = "new"
    /\ IdleIngest
    /\ IdleStream
    /\ deleg = NoneV

\* what serialize() keeps of a to_parent onto etree.Element('punk')
Encoded(r) ==
    /\ wire' = [st |-> r.st, doc |-> r.sink.doc]
    /\ elt' = IF r.st = "done" /\ Len(r.sink.doc.children) > 0
              THEN r.sink.doc.children[1] ELSE NoneV

Encode ==
    /\ cpc = "new"
    /\ Encoded(StartEncode(cls, val, "tree"))
    /\ cpc' = "encoded"
    /\ UNCHANGED <<types, deleg, ivars, svars, cls, decl, val, validator, freshDefaults, tampered, decoded>>

TamperType(t) ==
    /\ cpc = "encoded"
    /\ elt # NoneV
    /\ tampered = NoneS
    /\ types[decl].kind = "ComplexModelBase"
    /\ elt' = SetAttr(elt, XSI_TYPE, t)
    /\ tampered' = t
    /\ UNCHANGED <<types, deleg, ivars, svars, cls, decl, val, validator, freshDefaults, wire, decoded, cpc>>

\* the peer sends child i once more, with text t, after the other children
TamperRepeat(i, t) ==
    /\ cpc = "encoded"
    /\ elt # NoneV
    /\ tampered = NoneS
    /\ types[decl].kind = "ComplexModelBase"
    /\ i \in 1..Len(elt.children)
    /\ elt.children[i].children = <<>>
    /\ elt' = [elt EXCEPT !.children = Append(@, [elt.children[i] EXCEPT !.text = t])]
    /\ tampered' = "repeat"
    /\ UNCHANGED <<types, deleg, ivars, svars, cls, decl, val, validator, freshDefaults, wire, decoded, cpc>>

TamperNil(t) ==
    /\ cpc = "encoded"
    /\ elt # NoneV
    /\ tampered = NoneS
    /\ elt' = SetAttr(elt, NIL_NAME, t)
    /\ tampered' = "nil"
    /\ UNCHANGED <<types, deleg, ivars, svars, cls, decl, val, validator, freshDefaults, wire, decoded, cpc>>

\* incgen for the same value on a stream, as serialize() does when
\* ctx.out_stream is set: what it leaves on the writer
Streamed(r) ==
    /\ mode' = "stream"
    /\ gens' = r.frames
    /\ sink' = r.sink
    /\ left' = r.left
    /\ spc' = r.st
    /\ finishCalls' = IF r.st = "done" THEN 1 ELSE 0

EncodeStream ==
    /\ cpc = "encoded"
    /\ spc = "off"
    /\ tampered = NoneS
    /\ Streamed(StartEncode(cls, val, "stream"))
    /\ UNCHANGED <<types, deleg, ivars, root, sent, cvars>>

Decode ==
    /\ cpc = "encoded"
    /\ elt # NoneV
    /\ decoded' = from_element(decl, elt)
    /\ cpc' = "decoded"
    /\ UNCHANGED <<types, deleg, ivars, svars, cls, decl, val, validator, freshDefaults, wire, elt, tampered>>

CodecNext ==
    \/ Encode
    \/ EncodeStream
    \/ \E t \in XsiTampers : TamperType(t)
    \/ \E t \in NilTampers : TamperNil(t)
    \/ \E i \in 1..MaxLen, t \in {"0", "1"} : TamperRepeat(i, t)
    \/ Decode

CodecSpec == CodecInit /\ [][CodecNext]_vars

---------------------------------------------------------------------------
(* IngestSpec: one protocol instance is configured, then a document is      *)
(* parsed, validated and decoded.                                          *)

\* the protocol's validation state: self.validator, self.validate_document and
\* self.validation_schema
Protocol(v, vd, vs) == [validator |-> v, validate_document |-> vd, validation_schema |-> vs]

\* a set_validator in which choosing 'soft' puts back the no-op validate_document
set_validator_exclusive(p, v) ==
    IF v \in {"lxml", "schema"}
    THEN [prot |-> Protocol(SCHEMA_VALIDATION, "__validate_lxml", NoneS), raised |-> NoneS]
    ELSE IF v = "soft"
    THEN [prot |-> Protocol(SOFT_VALIDATION, "noop", NoneS), raised |-> NoneS]
    ELSE IF v = NoneS
    THEN [prot |-> [p EXCEPT !.validation_schema = NoneS], raised |-> NoneS]
    ELSE [prot |-> p, raised |-> "ValueError"]

set_validator(p, v) ==
    IF v \in {"lxml", "schema"}
    THEN [prot |-> Protocol(SCHEMA_VALIDATION, "__validate_lxml", NoneS), raised |-> NoneS]
    ELSE IF v = "soft"
    THEN [prot |-> Protocol(SOFT_VALIDATION, p.validate_document, NoneS), raised |-> NoneS]
    ELSE IF v = NoneS
    THEN [prot |-> [p EXCEPT !.validation_schema = NoneS], raised |-> NoneS]
    ELSE [prot |-> p, raised |-> "ValueError"]

\* ProtocolBase.__init__ before it applies the validator argument
Blank == Protocol(NoneS, "noop", NoneS)

\* the documents a call may bring: byte strings, well formed or not, and
\* unicode strings that carry an encoding declaration; `valid` is the verdict
\* the compiled schema gives on the parsed tree
InStrings ==
    {[kind |-> kind, wf |-> TRUE, valid |-> valid, root |-> e] :
        kind \in {"bytes", "unicode_decl"}, valid \in BOOLEAN,
        e \in {E(<<tns, "IntegerReq">>, "1"), ENil(<<tns, "IntegerReq">>)}}
    \cup {[kind |-> "bytes", wf |-> FALSE, valid |-> FALSE, root |-> NoneV]}

IngestInit ==
    /\ types = TypeTable
    /\ IdleStream
    /\ cls = NoneS /\ decl = "IntegerReq" /\ val = NoneV /\ freshDefaults = FALSE
    /\ wire = NoneV /\ elt = NoneV /\ tampered = NoneS /\ decoded = NoneV /\ cpc = "off"
    \* XmlDocument(validator=v): the constructor hands v to set_validator
    /\ \E v \in {NoneS, "soft", "schema"} :
          /\ validator = set_validator(Blank, v).prot.validator
          /\ validate_document = set_validator(Blank, v).prot.validate_document
          /\ validation_schema = set_validator(Blank, v).prot.validation_schema
          /\ requested = v
    /\ in_string \in InStrings
    /\ in_document = NoneV
    /\ raised = NoneS
    /\ ipc = "new"
    /\ deleg = NoneV

SetValidator(v) ==
    /\ ipc = "new"
    /\ LET r == set_validator(Protocol(validator, validate_document, validation_schema), v)
       IN  /\ validator' = r.prot.validator
           /\ validate_document' = r.prot.validate_document
           /\ validation_schema' = r.prot.validation_schema
           /\ raised' = r.raised
           /\ requested' = IF r.raised = NoneS THEN v ELSE requested
    /\ UNCHANGED <<types, deleg, svars, cls, decl, val, freshDefaults, wire, elt, tampered, decoded,
                   cpc, in_string, in_document, ipc>>

\* set_app(value): the schema is rebuilt from the application's interface
SetApp(value) ==
    /\ ipc = "new"
    /\ validation_schema' = IF value = NoneS THEN NoneS ELSE "compiled"
    /\ raised' = NoneS
    /\ UNCHANGED <<types, deleg, svars, cvars, validate_document, in_string, in_document, requested,
                   ipc>>

\* what the fallback after ValueError raises: string.decode(None) is a
\* TypeError, a str has no decode at all, self.parser is not an attribute this
\* class sets, and a second fromstring of the same unicode string is the same
\* ValueError
FallbackErrors(charset) ==
    IF charset = NoneS THEN {"TypeError", "AttributeError"}
    ELSE {"AttributeError", "ValueError"}

CreateInDocument(charset) ==
    /\ ipc = "new"
    /\ IF in_string.kind = "unicode_decl"
       THEN /\ raised' \in FallbackErrors(charset)
            /\ in_document' = in_document
            /\ ipc' = "parse_failed"
       ELSE IF ~in_string.wf
       THEN /\ raised' = "Client.XMLSyntaxError"
            /\ in_document' = in_document
            /\ ipc' = "parse_failed"
       ELSE /\ raised' = NoneS
            /\ in_document' = in_string.root
            /\ ipc' = "parsed"
    /\ UNCHANGED <<types, deleg, svars, cvars, validate_document, validation_schema, in_string,
                   requested>>

\* self.validate_document(ctx.in_body_doc)
ValidateBody ==
    /\ ipc = "parsed"
    /\ raised' = IF validate_document = "noop" THEN NoneS
                 ELSE IF validation_schema = NoneS THEN "AttributeError"
                 ELSE IF in_string.valid THEN NoneS ELSE "SchemaValidationError"
    /\ ipc' = IF raised' = NoneS THEN "validated" ELSE "validate_failed"
    /\ UNCHANGED <<types, deleg, svars, cvars, validate_document, validation_schema, in_string,
                   in_document, requested>>

DecodeBody ==
    /\ ipc = "validated"
    /\ decoded' = from_element(decl, in_document)
    /\ raised' = decoded'.exc
    /\ ipc' = "decoded"
    /\ UNCHANGED <<types, deleg, svars, cls, decl, val, validator, freshDefaults, wire, elt, tampered,
                   cpc, validate_document, validation_schema, in_string, in_document,
                   requested>>

IngestNext ==
    \/ \E v \in {NoneS, "soft", "schema", "lxml", "strict"} : SetValidator(v)
    \/ \E value \in {NoneS, "app"} : SetApp(value)
    \/ \E charset \in {NoneS, "utf-8"} : CreateInDocument(charset)
    \/ ValidateBody
    \/ DecodeBody

IngestSpec == IngestInit /\ [][IngestNext]_vars

---------------------------------------------------------------------------
(* DelegSpec: one to_parent call on a type, followed call by call through   *)
(* the delegation to the type's sub-protocol.                               *)

DelegInit ==
    /\ types = TypeTable
    /\ IdleStream
    /\ IdleCodec
    /\ IdleIngest
    /\ \E c \in {"Integer", "IntegerDef", "IntegerVia", "IntegerSub"},
          ns \in {tns, ns_soap_env}, name \in {NoneS, "retval", "via", "n"} :
          deleg = [c |-> c, ns0 |-> ns, name0 |-> name, ns |-> ns, name |-> name,
                   depth |-> 1, pc |-> "to_parent"]

\* to_parent: `subprot = getattr(cls.Attributes, 'prot', None)`; with a
\* sub-protocol the call goes to subprot.subserialize(ctx, cls, inst, parent, ns,
\* name), without one the handler (or null_to_parent) writes under ns and name
ToParentStep ==
    /\ deleg # NoneV /\ deleg.pc = "to_parent"
    /\ deleg' = IF types[deleg.c].prot = NoneS THEN [deleg EXCEPT !.pc = "handled"]
                ELSE IF deleg.depth >= RecursionLimit
                THEN [deleg EXCEPT !.pc = "RecursionError"]
                ELSE [deleg EXCEPT !.pc = "subserialize", !.depth = @ + 1]
    /\ UNCHANGED <<types, svars, cvars, ivars>>

\* subserialize: `return self.to_parent(ctx, cls, inst, parent, name)`;
\* SubXmlBase.to_parent raises NotImplementedError, XmlDocument.to_parent is the
\* step above
SubserializeStep ==
    /\ deleg # NoneV /\ deleg.pc = "subserialize"
    /\ deleg' = IF deleg.depth >= RecursionLimit
                THEN [deleg EXCEPT !.pc = "RecursionError"]
                ELSE [deleg EXCEPT !.ns = deleg.name, !.name = NoneS, !.depth = @ + 1,
                                   !.pc = IF types[deleg.c].prot = "SubXmlBase"
                                          THEN "NotImplementedError" ELSE "to_parent"]
    /\ UNCHANGED <<types, svars, cvars, ivars>>

DelegNext == ToParentStep \/ SubserializeStep

DelegSpec == DelegInit /\ [][DelegNext]_vars

---------------------------------------------------------------------------
(* Properties of the streaming encode (Spec).                              *)

RECURSIVE Collect(_, _)
RECURSIVE CollectFrom(_, _, _)
\* the elements of local name `name` below e, in document order
Collect(e, name) ==
    (IF e.tag[2] = name THEN <<e>> ELSE <<>>) \o CollectFrom(e.children, 1, name)
CollectFrom(children, i, name) ==
    IF i > Len(children) THEN <<>>
    ELSE Collect(children[i], name) \o CollectFrom(children, i + 1, name)

HoldsPush(y) == y.k = "obj" /\ \E key \in DOMAIN y.fields : y.fields[key] = PushV

\* the encode is of a value with exactly one push-style field
OnePush ==
    /\ \/ root.c \in {"Feed", "Table", "DerivedFeed", "Envelope"}
       \/ root.c = "Book" /\ root.inst.fields.chapters = PushV
    /\ \A i \in 1..Len(sent) : ~HoldsPush(sent[i])

\* the name the items of the push-style field are written under
PushTag == CASE root.c = "Table" -> "rows" [] root.c = "Book" -> "chapters" [] OTHER -> "items"

\* an encode that was started and is not suspended
Ended == spc \in {"done", "exc"}

WellFormed == sink.open = <<>> /\ ~sink.bad

\* the element an item of a push-style field is written as
ItemElement(y) ==
    IF y.k = "int" THEN E(<<tns, "items">>, to_string(y))
    ELSE [E(<<tns, "rows">>, "") EXCEPT !.children = <<E(<<tns, "id">>, to_string(y.fields.id))>>]

\* C1 -- Streaming cancellation: a streaming encode (incgen) of a value with one
\* push-style repeating field that was sent K items and then Break has ended
\* normally, every element it opened is closed, and the document holds exactly
\* K item elements.
C1_StreamingCancellation ==
    (mode = "stream" /\ OnePush /\ Ended) =>
        /\ spc = "done"
        /\ WellFormed
        /\ Len(Collect(sink.doc, PushTag)) = Len(sent)

C1_Witness ==
    /\ mode = "stream" /\ root.c = "Feed" /\ spc = "done"
    /\ Len(sent) = 2 /\ WellFormed
    /\ Len(Collect(sink.doc, "items")) = 2

\* C2 -- Cancellation propagation: once Break was delivered to the outermost
\* suspended producer of a streaming encode, every nested producer has
\* terminated and every opened element is closed: no producer is left
\* suspended, whatever the nesting of push-style fields.
C2_CancellationPropagates ==
    (mode = "stream" /\ Ended) =>
        /\ spc = "done"
        /\ left = <<>>
        /\ WellFormed

\* C3 -- Push ordering: whenever the producer is suspended or has ended, the
\* item elements in the sink are exactly the items sent so far, in the order
\* sent, each once.
C3_PushOrdering ==
    (root.c \in {"Feed", "Table", "DerivedFeed", "Envelope"} /\ spc \in {"susp", "done"}) =>
        Collect(sink.doc, PushTag) = [i \in 1..Len(sent) |-> ItemElement(sent[i])]

C3_Witness ==
    /\ root.c = "Feed" /\ spc = "susp" /\ mode = "stream"
    /\ sent = <<IntV(1), IntV(0), IntV(1)>>
    /\ Collect(sink.doc, "items") =
         <<E(<<tns, "items">>, "1"), E(<<tns, "items">>, "0"), E(<<tns, "items">>, "1")>>

---------------------------------------------------------------------------
(* Properties of encode and decode (CodecSpec).                            *)

RECURSIVE Norm(_)
\* a native value as a reader of its fields sees it: a missing field reads None
Norm(v) ==
    IF v.k = "obj"
    THEN ObjV(v.cls, [key \in DOMAIN v.fields |->
                         IF v.fields[key] = MissingV THEN NoneV ELSE Norm(v.fields[key])])
    ELSE v

RECURSIVE Foreign(_)
\* some field of the instance fails when read
Foreign(v) ==
    v.k = "obj" /\ \E key \in DOMAIN v.fields :
                      v.fields[key] = RaisesV \/ Foreign(v.fields[key])

\* the element came back unchanged and is decoded as the type it was encoded as
Plain == cpc = "decoded" /\ tampered = NoneS /\ decl = cls

RoundTrips == decoded.exc = NoneS /\ decoded.value = Norm(val)

\* the children of e that have the local name `name`
Named(e, name) == SelectSeq(e.children, LAMBDA ch : ch.tag[2] = name)

RECURSIVE Faithful(_, _)
\* a value of type c that the wire format keeps apart from every other value
FaithfulField(m, x) ==
    IF types[m].kind = "XmlAttribute" \/ types[m].sub_name # NoneS THEN FALSE
    ELSE IF x \in {NoneV, MissingV}
    THEN /\ types[m].default = NoneV
         /\ types[m].max_occurs > 1 => types[m].min_occurs = 0
         /\ validator = SOFT_VALIDATION => (types[m].nillable \/ types[m].min_occurs = 0)
    ELSE IF types[m].max_occurs > 1
    THEN /\ x.k = "list" /\ Len(x.items) > 0
         /\ validator = SOFT_VALIDATION =>
               (Len(x.items) >= types[m].min_occurs /\ Len(x.items) <= types[m].max_occurs)
         /\ \A i \in 1..Len(x.items) : Faithful(m, x.items[i])
    ELSE Faithful(m, x)
Faithful(c, v) ==
    IF v = NoneV
    THEN types[c].default = NoneV /\ (validator = SOFT_VALIDATION => types[c].nillable)
    ELSE IF v.k = "obj"
    THEN /\ v.cls = c /\ types[c].kind = "ComplexModelBase"
         /\ \A key \in DOMAIN v.fields : FaithfulField(FlatMember(c, key), v.fields[key])
    ELSE TRUE

\* C4 as stated -- Round-trip: decoding the element produced by encoding any
\* scalar, enum or finite complex value yields the value field for field.
C4_RoundTripAsStated ==
    (Plain /\ ~Foreign(val)) => RoundTrips

\* C4 -- Round-trip, amended: decoding the element produced by encoding a scalar,
\* enum or complex value of element-kind fields written under their own names
\* yields the value field for field when no None or missing field has a declared
\* default, no repeating field is empty or (with min_occurs > 0) None, every
\* field value is an instance of exactly its declared class, and, under soft
\* validation, the value meets its nillable and occurrence constraints.
C4_RoundTrip ==
    (Plain /\ ~Foreign(val) /\ Faithful(cls, val)) => RoundTrips

C4_Witness ==
    /\ Plain /\ cls = "Bag" /\ validator = SOFT_VALIDATION
    /\ val = ObjV("Bag", [s |-> ListV(<<IntV(1), IntV(0)>>), c |-> EnumV("Green")])
    /\ decoded.value = val

\* C5 -- Occurrence bounds: under soft validation, decoding a complex element in
\* which the field with min_occurs=1 and max_occurs=3 occurs zero times or more
\* than three times raises a fault with code Client.ValidationError; with one to
\* three occurrences the decode succeeds and the field holds the occurrences in
\* wire order.
C5_OccurrenceBounds ==
    (Plain /\ cls = "Bag" /\ validator = SOFT_VALIDATION /\ val.fields.s # NoneV) =>
        LET n == Len(Named(elt, "s"))
        IN  /\ n = Len(val.fields.s.items)
            /\ (n = 0 \/ n > 3) => decoded.err = "Client.ValidationError"
            /\ (n >= 1 /\ n <= 3) =>
                  /\ decoded.exc = NoneS
                  /\ decoded.value.fields.s =
                        ListV([i \in 1..n |-> from_string(Named(elt, "s")[i].text)])
                  /\ decoded.value.fields.s = val.fields.s

C5_Witness ==
    /\ Plain /\ cls = "Bag" /\ validator = SOFT_VALIDATION
    /\ Len(Named(elt, "s")) = 4
    /\ decoded.err = "Client.ValidationError"

\* C6 -- Nil encoding: in the element a complex value is encoded as, an optional
\* field (min_occurs=0) whose value is missing has no element, and a nillable
\* field explicitly set to None has an element carrying xsi:nil="true".
C6_NilEncoding ==
    (cpc # "new" /\ cls \in {"Rec", "Base", "Derived"} /\ wire.st = "done") =>
        \A key \in FlatKeys(cls) :
            /\ (val.fields[key] = MissingV /\ types[FlatMember(cls, key)].min_occurs = 0) =>
                  Named(wire.doc.children[1], key) = <<>>
            /\ (val.fields[key] = NoneV /\ types[FlatMember(cls, key)].nillable) =>
                  /\ Len(Named(wire.doc.children[1], key)) = 1
                  /\ GetAttr(Named(wire.doc.children[1], key)[1], NIL_NAME) = "true"

\* C7 -- Nil decoding: from_element on an element carrying the nil marker
\* returns the declared default for a nillable type and raises ValidationError
\* for a non-nillable type under soft validation; in neither case is the type's
\* handler invoked.
C7_NilDecoding ==
    (cpc = "decoded" /\ GetAttr(elt, NIL_NAME) = "true") =>
        /\ decoded.calls = <<>>
        /\ types[decl].nillable =>
              (decoded.exc = NoneS /\ decoded.value = types[decl].default)
        /\ (~types[decl].nillable /\ validator = SOFT_VALIDATION) =>
              (decoded.exc = "ValidationError" /\ decoded.err = "Client.ValidationError")

C7_Witness ==
    /\ cpc = "decoded" /\ GetAttr(elt, NIL_NAME) = "true"
    /\ decl = "IntegerDef" /\ decoded.value = IntV(1) /\ decoded.calls = <<>>

\* C8 -- Polymorphism: a complex element whose xsi:type resolves to a registered
\* subtype decodes to an instance of the subtype, its extended fields taken from
\* the children; an xsi:type that names an unregistered type, uses an unbound
\* prefix or is not exactly prefix:localname raises nothing and gives an
\* instance of the declared type.
C8_Polymorphism ==
    (cpc = "decoded" /\ decl = "Base" /\ tampered # NoneS /\ ~IsNil(elt)) =>
        /\ tampered = "p:Derived" =>
              /\ decoded.exc = NoneS
              /\ decoded.value.cls = "Derived"
              /\ cls = "Derived" => decoded.value.fields.y = ReadMember(val, "y")
              /\ ReadMember(val, "x") # NoneV => decoded.value.fields.x = ReadMember(val, "x")
        /\ tampered \in {"p:Nope", "q:Derived", "Derived", "p:Derived:x"} =>
              /\ decoded.exc = NoneS
              /\ decoded.value.cls = "Base"
              /\ DOMAIN decoded.value.fields = {"x"}

C8_Witness ==
    /\ cpc = "decoded" /\ decl = "Base" /\ cls = "Derived" /\ tampered = "p:Derived"
    /\ val.fields.y = IntV(1)
    /\ decoded.value.cls = "Derived" /\ decoded.value.fields.y = IntV(1)

RECURSIVE Absent(_)
\* the instance with every failing field missing instead
Absent(v) ==
    IF v.k = "obj"
    THEN ObjV(v.cls, [key \in DOMAIN v.fields |->
                         IF v.fields[key] = RaisesV THEN MissingV ELSE Absent(v.fields[key])])
    ELSE v

\* C9 -- Foreign attribute-read failure: the encode of a complex value some of
\* whose fields fail when read raises nothing and gives the document it gives
\* when those fields are absent; attribute_of fields included.
C9_ForeignReadIsAbsent ==
    (cpc # "new" /\ Foreign(val)) =>
        /\ wire.st = "done"
        /\ wire.doc = StartEncode(cls, Absent(val), "tree").sink.doc

\* C10 -- Attribute folding: with an owner sequence and an attribute sequence of
\* the same length N, the tree-mode output has exactly N owner elements, the
\* i-th carrying the i-th attribute value, and the attribute is not on the
\* enclosing element; also when the owner is emitted under a sub_name.
C10_AttributeFolding ==
    (cpc # "new" /\ cls \in {"Tagged", "TaggedSub"}
       /\ val.fields.item # NoneV /\ val.fields.code \notin {NoneV, RaisesV}
       /\ Len(val.fields.item.items) = Len(val.fields.code.items)) =>
        LET owners == Named(wire.doc.children[1], SubName(FlatMember(cls, "item"), "item"))
        IN  /\ wire.st = "done"
            /\ Len(owners) = Len(val.fields.item.items)
            /\ \A i \in 1..Len(owners) :
                  GetAttr(owners[i], <<NoneS, "code">>) = to_string(val.fields.code.items[i])
            /\ ~HasAttr(wire.doc.children[1], <<NoneS, "code">>)

\* the same complex value was encoded onto a tree node and onto a streaming
\* writer (under the same element name: the name of its type)
BothEncoded ==
    cpc # "new" /\ spc \notin {"off", "new"} /\ types[cls].kind = "ComplexModelBase"

\* C11 -- Tree/stream equivalence: a value with no push-style fields encoded
\* onto a tree node and onto a streaming writer gives the same outcome and the
\* same document (elements, attributes, nil markers, order); values with
\* attribute_of fields included.
C11_TreeStreamEquivalence ==
    BothEncoded =>
        /\ spc = wire.st
        /\ sink.doc.children = wire.doc.children

\* C12 -- Fault shape: a Fault is encoded as an element {soap_env}Fault whose
\* children are faultcode ('prefix:code'), faultstring, faultactor (empty when
\* the actor is None), then detail only when detail is not None, then the other
\* declared fields; with actor=None and detail=None the encode succeeds.
C12_FaultShape ==
    (cpc # "new" /\ types[cls].kind = "Fault" /\ val.fields.detail.k \in {"none", "str"}) =>
        /\ wire.st = "done"
        /\ LET f == wire.doc.children[1]
               fixed == IF val.fields.detail = NoneV THEN 3 ELSE 4
           IN  /\ f.tag = <<ns_soap_env, "Fault">>
               /\ Len(f.children) >= fixed
               /\ f.children[1] = E(<<NoneS, "faultcode">>, "senv:Client.Foo")
               /\ f.children[2] = E(<<NoneS, "faultstring">>, "bad")
               /\ f.children[3].tag = <<NoneS, "faultactor">>
               /\ f.children[3].text =
                     (IF val.fields.faultactor = NoneV THEN "" ELSE val.fields.faultactor.s)
               /\ val.fields.detail # NoneV => f.children[4] = E(<<NoneS, "detail">>, "why")
               /\ \A i \in (fixed + 1)..Len(f.children) : f.children[i].tag = <<tns, "hint">>

\* a generator that the decode returned without running it, and in which an
\* item fails its check when the generator is consumed
Unchecked(v) ==
    v.k = "gen" /\ \E i \in 1..Len(v.pending) : v.pending[i].exc # NoneS

\* C13 -- No partial-object recovery: under soft validation, if any field of the
\* decoded document fails its check (an element of an Array or Iterable
\* container included), the top-level decode raises and returns no value; a
\* value is returned only if every field passed.
C13_NoPartialRecovery ==
    (cpc = "decoded" /\ validator = SOFT_VALIDATION) =>
        /\ decoded.exc # NoneS => decoded.value = NoneV
        /\ decoded.exc = NoneS => ~Unchecked(decoded.value)

\* C14 -- Validation modes combine: choosing soft validation on a protocol
\* instance whose validate_document performs schema validation keeps that
\* schema validation, so the whole-document check at ingest and the decoder's
\* per-field soft checks are active together on one instance.
C14_ModesCombine ==
    [][(validate_document = "__validate_lxml" /\ validator' = SOFT_VALIDATION)
           => validate_document' = "__validate_lxml"]_vars

\* one call on which the schema validation ran at ingest and the decoder then
\* failed a soft check
C14_Witness ==
    /\ validate_document = "__validate_lxml" /\ validation_schema # NoneS
    /\ validator = SOFT_VALIDATION
    /\ ipc = "decoded" /\ raised = "ValidationError"

\* C17 -- Syntax fault at ingest: create_in_document either sets ctx.in_document
\* to the parsed tree, or raises a Fault with code Client.XMLSyntaxError; on every
\* failing input it raises that Fault and no other error kind, and
\* ctx.in_document is not assigned on failure.
C17_SyntaxFault ==
    /\ ipc = "parsed" => (raised = NoneS /\ in_document = in_string.root)
    /\ ipc = "parse_failed" => (raised = "Client.XMLSyntaxError" /\ in_document = NoneV)

\* C16 -- Sub-protocol delegation: when a type declares a sub-protocol
\* (Attributes.prot), to_parent delegates the whole encode to that protocol's
\* subserialize, and the value is encoded under the surrounding namespace and
\* name: the namespace and name the sub-protocol's to_parent receives are the
\* ones the caller supplied.
C16_SubProtocolDelegation ==
    /\ (cpc # "new" /\ cls \in {"IntegerVia", "IntegerSub"}) =>
          /\ wire.st = "done"
          /\ Len(wire.doc.children) = 1
          /\ wire.doc.children[1].tag = <<tns, "retval">>
    /\ (cpc # "new" /\ cls = "Routed" /\ val.fields.via # NoneV) =>
          /\ wire.st = "done"
          /\ Len(wire.doc.children) = 1
          /\ Len(Named(wire.doc.children[1], "via")) = 1
          /\ Named(wire.doc.children[1], "via")[1].tag = <<tns, "via">>

\* C15 -- Sink finalization: in streaming mode the sink's finish is invoked
\* exactly once per call, after the root element was closed and only when the
\* encode has completed; never while a nested producer is still suspended
\* awaiting items, and never before all sent items are written.
C15_SinkFinalization ==
    mode = "stream" =>
        /\ finishCalls <= 1
        /\ spc = "done" => finishCalls = 1
        /\ finishCalls = 1 =>
              /\ spc = "done"
              /\ WellFormed
              /\ gens = <<>> /\ left = <<>>
              /\ Len(Collect(sink.doc, PushTag)) >= Len(sent)

\* the local names of the children of an element, in document order
LocalNames(e) == [i \in 1..Len(e.children) |-> e.children[i].tag[2]]

\* C19 -- Field completeness and order: when the encode of a complex value
\* completes (completion via Break on a push-style field included), every
\* declared element-kind field with a present value has been written once per
\* item, the fields of the root ancestor first and of the most derived type
\* last, in declaration order within each type; fields declared after a
\* push-style field are written after that field's items.
C19_FieldCompleteness ==
    (spc = "done" /\ root.c \in {"Feed", "DerivedFeed"}) =>
        LocalNames(sink.doc.children[1]) =
            <<"title">> \o [i \in 1..Len(sent) |-> "items"] \o <<"tail">>
                \o (IF root.c = "DerivedFeed" THEN <<"extra">> ELSE <<>>)

\* the number of children of e that were resolved to the field `key` of class c,
\* by the declared name or by the alternate-name table
ResolvedTo(c, e, key) ==
    Cardinality({i \in 1..Len(e.children) : MemberKeyOf(c, e.children[i].tag[2]) = key})

\* C20 -- Occurrence counting per field: the count checked against
\* [min_occurs, max_occurs] for a declared field is the number of children that
\* were resolved to that field, by the declared name or by the alternate name;
\* so a field with min_occurs=1 supplied once under its alternate name passes
\* soft validation.
C20_OccurrenceCounting ==
    (/\ Plain /\ validator = SOFT_VALIDATION
     /\ cls \in {"Bag", "Tagged", "TaggedSub"}
     /\ \A key \in FlatKeys(cls) :
           /\ ResolvedTo(cls, elt, key) >= types[FlatMember(cls, key)].min_occurs
           /\ ResolvedTo(cls, elt, key) <= types[FlatMember(cls, key)].max_occurs)
        => decoded.exc = NoneS

\* the peer repeated a child of a Rec or Bag element, and the element is decoded
\* as the type it was encoded as
Repeated ==
    cpc = "decoded" /\ tampered = "repeat" /\ decl = cls /\ cls \in {"Rec", "Bag"}

\* the field the repeated child belongs to
RepeatedKey == elt.children[Len(elt.children)].tag[2]

\* the values of the children of e named `name`, in wire order
ValuesOf(c, e, name) ==
    [i \in 1..Len(Named(e, name)) |-> from_element(FlatMember(c, name), Named(e, name)[i]).value]

\* the repeated child belongs to a scalar field, and every child of the element
\* is decoded without error when taken alone
RepeatedScalar ==
    /\ Repeated /\ types[FlatMember(cls, RepeatedKey)].kind = "ModelBase"
    /\ \A i \in 1..Len(elt.children) :
          from_element(FlatMember(cls, elt.children[i].tag[2]), elt.children[i]).exc = NoneS

\* what C21 says of the field of the repeated child
LastWins ==
    /\ decoded.exc = NoneS
    /\ IF types[FlatMember(cls, RepeatedKey)].max_occurs > 1
       THEN decoded.value.fields[RepeatedKey] = ListV(ValuesOf(cls, elt, RepeatedKey))
       ELSE decoded.value.fields[RepeatedKey] =
                ValuesOf(cls, elt, RepeatedKey)[Len(Named(elt, RepeatedKey))]

\* C21 as stated -- Last occurrence wins: when the wire repeats a non-repeating
\* field of a complex element, the decoder does not report it as an error; the
\* decode succeeds and the field holds the value of the last occurrence, while a
\* repeating field accumulates every occurrence in wire order.
C21_LastWinsAsStated ==
    RepeatedScalar => LastWins

\* C21 -- Last occurrence wins, amended: as stated when soft validation is not
\* active; under soft validation a non-repeating field that occurs twice fails
\* the occurrence check and the decode raises Client.ValidationError.
C21_LastWins ==
    /\ (RepeatedScalar /\ validator # SOFT_VALIDATION) => LastWins
    /\ (/\ RepeatedScalar /\ validator = SOFT_VALIDATION
        /\ types[FlatMember(cls, RepeatedKey)].max_occurs = 1
        /\ Len(Named(elt, RepeatedKey)) > 1) => decoded.err = "Client.ValidationError"

C21_Witness ==
    /\ Repeated /\ cls = "Rec" /\ validator = NoneS
    /\ Len(Named(elt, "a")) = 2
    /\ Named(elt, "a")[1].text = "0" /\ Named(elt, "a")[2].text = "1"
    /\ decoded.exc = NoneS /\ decoded.value.fields.a = IntV(1)

\* to_parent was given None for a type without sub-protocol, onto the tree node
NoneEncoded ==
    cpc # "new" /\ val = NoneV /\ types[cls].prot = NoneS
        /\ types[cls].kind \in {"ModelBase", "EnumBase", "XmlAttribute", "XmlData"}

\* C22 -- Nil marker by field kind: when to_parent is given an absent value and
\* the type has no default it emits a nil marker: for an attribute-kind type a
\* nil flag is set on the owning element, for an element-kind type an empty
\* element with the given namespace and name carrying xsi:nil="true" is appended,
\* for an xml-body type the nil marker is set on the parent; when the type has a
\* default, the default is encoded by the handler instead.
C22_NilMarkerByKind ==
    NoneEncoded =>
        /\ wire.st = "done"
        /\ types[cls].default # NoneV =>
              wire.doc.children = <<E(<<tns, "retval">>, to_string(types[cls].default))>>
        /\ (types[cls].default = NoneV /\ types[cls].kind = "XmlAttribute") =>
              wire.doc # NewSink("tree").doc
        /\ (types[cls].default = NoneV /\ types[cls].kind = "XmlData") =>
              wire.doc = SetAttr(NewSink("tree").doc, NIL_NAME, "true")
        /\ (types[cls].default = NoneV /\ types[cls].kind \in {"ModelBase", "EnumBase"}) =>
              wire.doc.children = <<ENil(<<tns, "retval">>)>>

\* C23 -- Nil marker recognition: from_element treats an element as nil-marked
\* only when its xsi:nil attribute has the value "true"; an element with
\* xsi:nil="false" is decoded by the type's handler like an element without the
\* attribute.
C23_NilRecognition ==
    (cpc = "decoded" /\ HasAttr(elt, NIL_NAME)) =>
        /\ GetAttr(elt, NIL_NAME) = "true" => decoded.calls = <<>>
        /\ GetAttr(elt, NIL_NAME) # "true" => decoded = Deserialize(decl, elt)

\* the validation mode a validator argument asks for
ModeOf(v) ==
    CASE v \in {"lxml", "schema"} -> SCHEMA_VALIDATION
      [] v = "soft" -> SOFT_VALIDATION
      [] OTHER -> NoneS

\* C24 -- Validator setting reflects the last call: after any sequence of
\* set_validator calls the active validation mode is the mode requested by the
\* last successful call, and validate_document performs schema validation if and
\* only if that mode is Schema; set_validator(None) after set_validator('schema')
\* leaves no validation active.
C24_ValidatorReflectsLastCall ==
    ipc # "off" =>
        /\ validator = ModeOf(requested)
        /\ validate_document = "__validate_lxml" <=> ModeOf(requested) = SCHEMA_VALIDATION

\* C25 -- Polymorphic type safety: the instance returned by
\* complex_from_element is of the declared type or of a type that extends it; an
\* xsi:type that resolves to a registered type that is not a subtype of the
\* declared type does not change the working type.
C25_PolymorphicTypeSafety ==
    (/\ cpc = "decoded" /\ types[decl].kind = "ComplexModelBase"
     /\ decoded.exc = NoneS /\ decoded.value # NoneV) =>
        Extends(decoded.value.cls, decl)

\* C26 -- Delegation terminates: to_parent on a type that declares a
\* sub-protocol terminates after a bounded number of delegation steps for every
\* sub-protocol, an XmlDocument included; the delegation never re-enters itself
\* until the interpreter stops it.
C26_DelegationTerminates ==
    deleg # NoneV => deleg.pc # "RecursionError"

=============================================================================
